---- MODULE Spec2Model ----
(***************************************************************************)
(* Reciprocal Rank Fusion as implemented in server/py:                     *)
(*   reciprocal_rank_fusion.py  (main + the document-only fuser)           *)
(*   rag_fusion.py              (the fuser returning (document, score))    *)
(* Scores are Python floats (IEEE-754 binary64, round to nearest even);    *)
(* documents are JSON values keyed by their serialisation.                 *)
(***************************************************************************)
EXTENDS Integers, Sequences, FiniteSets, TLC

(***************************************************************************)
(* Bounds of the explored inputs.                                          *)
(***************************************************************************)
MaxLists == 2
MaxLen == 3

\* default smoothing constant of both fusers
DefaultK == 60

(***************************************************************************)
(* Python float arithmetic.  A positive binary64 value is                  *)
(*   (hi * 2^27 + lo) * 2^(e - 52)   with 2^25 <= hi < 2^26, 0 <= lo < 2^27 *)
(* (a 53 bit significand, kept in two limbs); hi = 0 is the number zero.   *)
(***************************************************************************)
LimbBits == 27
Limb == 2 ^ LimbBits
HiMax == 2 ^ (LimbBits - 1)

FZero == [e |-> 0, hi |-> 0, lo |-> 0]

\* round to nearest, ties to even: g is the first discarded bit, s the OR of the rest
RoundNearestEven(e, hi, lo, g, s) ==
  LET up == g = 1 /\ (s = 1 \/ lo % 2 = 1)
      lo1 == IF up THEN lo + 1 ELSE lo
      hi1 == hi + (lo1 \div Limb)
      lo2 == lo1 % Limb
  IN IF hi1 >= HiMax
       THEN [e |-> e + 1, hi |-> hi1 \div 2, lo |-> (lo2 \div 2) + (hi1 % 2) * (Limb \div 2)]
       ELSE [e |-> e, hi |-> hi1, lo |-> lo2]

\* the exponent of 1/n: the e with 2^e <= 1/n < 2^(e+1)
RECURSIVE DivExp(_, _, _)
DivExp(n, p, e) == IF p >= n THEN e ELSE DivExp(n, 2 * p, e - 1)

\* 1 / n for an integer 1 <= n <= 1024, correctly rounded: the 53 bit quotient
\* floor(2^(52-e) / n) by long division in three chunks (12..22, 20 and 20 bits)
FRecip(n) ==
  LET e == DivExp(n, 1, 0)
      top == 2 ^ (12 - e)
      q0 == top \div n
      r0 == top % n
      q1 == (r0 * 2^20) \div n
      r1 == (r0 * 2^20) % n
      q2 == (r1 * 2^20) \div n
      r2 == (r1 * 2^20) % n
      g == IF 2 * r2 >= n THEN 1 ELSE 0
      s == IF 2 * r2 - g * n > 0 THEN 1 ELSE 0
  IN RoundNearestEven(e, q0 * 2^13 + (q1 \div 2^7), (q1 % 2^7) * 2^20 + q2, g, s)

\* shift an exact significand right by 0 <= d <= 2 * LimbBits bits; g is the first
\* bit shifted out, s the OR of the bits after it
ShiftRight(hi, lo, d) ==
  IF d = 0 THEN [hi |-> hi, lo |-> lo, g |-> 0, s |-> 0]
  ELSE IF d < LimbBits
    THEN [hi |-> hi \div 2^d,
          lo |-> (lo \div 2^d) + (hi % 2^d) * 2^(LimbBits - d),
          g |-> (lo % 2^d) \div 2^(d - 1),
          s |-> IF lo % 2^(d - 1) > 0 THEN 1 ELSE 0]
  ELSE IF d = LimbBits
    THEN [hi |-> 0, lo |-> hi,
          g |-> lo \div 2^(LimbBits - 1),
          s |-> IF lo % 2^(LimbBits - 1) > 0 THEN 1 ELSE 0]
  ELSE LET d2 == d - LimbBits
       IN [hi |-> 0, lo |-> hi \div 2^d2,
           g |-> (hi % 2^d2) \div 2^(d2 - 1),
           s |-> IF hi % 2^(d2 - 1) > 0 \/ lo > 0 THEN 1 ELSE 0]

\* a + b for non-negative floats
FAdd(a, b) ==
  IF a.hi = 0 THEN b
  ELSE IF b.hi = 0 THEN a
  ELSE LET big == IF a.e >= b.e THEN a ELSE b
           small == IF a.e >= b.e THEN b ELSE a
           d == big.e - small.e
       IN IF d > 2 * LimbBits THEN big
          ELSE LET sh == ShiftRight(small.hi, small.lo, d)
                   l == big.lo + sh.lo
                   h == big.hi + sh.hi + (l \div Limb)
                   lo == l % Limb
               IN IF h >= HiMax
                    THEN RoundNearestEven(big.e + 1, h \div 2,
                                          (lo \div 2) + (h % 2) * (Limb \div 2), lo % 2,
                                          IF sh.g = 1 \/ sh.s = 1 THEN 1 ELSE 0)
                    ELSE RoundNearestEven(big.e, h, lo, sh.g, sh.s)

\* a < b for non-negative floats
FLess(a, b) ==
  IF b.hi = 0 THEN FALSE
  ELSE IF a.hi = 0 THEN TRUE
  ELSE \/ a.e < b.e
       \/ a.e = b.e /\ a.hi < b.hi
       \/ a.e = b.e /\ a.hi = b.hi /\ a.lo < b.lo

(***************************************************************************)
(* Python values as decoded from JSON.  A string is a sequence of          *)
(* characters, an int a sequence of digits, a dict an (insertion ordered)  *)
(* sequence of <<key, value>> pairs, a list a sequence of values.          *)
(***************************************************************************)
Str(s) == [t |-> "str", v |-> s]
Num(ds) == [t |-> "int", v |-> ds]
Dict(pairs) == [t |-> "dict", v |-> pairs]
List(items) == [t |-> "list", v |-> items]

Digits == {"0", "1", "2", "3", "4", "5", "6", "7", "8", "9"}

\* iter(x): a list yields its elements, a dict its keys, a str its characters;
\* anything else raises TypeError
Iterable(x) == x.t \in {"list", "dict", "str"}

Iter(x) ==
  IF x.t = "list" THEN x.v
  ELSE IF x.t = "dict" THEN [i \in 1..Len(x.v) |-> Str(x.v[i][1])]
  ELSE [i \in 1..Len(x.v) |-> Str(<<x.v[i]>>)]

\* json.dumps / langchain.load.dumps: the serialisation as a sequence of characters
RECURSIVE dumps(_)
RECURSIVE DumpItems(_, _)
RECURSIVE DumpPairs(_, _)
DumpItems(items, i) ==
  IF i > Len(items) THEN <<>>
  ELSE (IF i > 1 THEN <<",">> ELSE <<>>) \o dumps(items[i]) \o DumpItems(items, i + 1)

DumpPairs(pairs, i) ==
  IF i > Len(pairs) THEN <<>>
  ELSE (IF i > 1 THEN <<",">> ELSE <<>>) \o dumps(Str(pairs[i][1])) \o <<":">>
       \o dumps(pairs[i][2]) \o DumpPairs(pairs, i + 1)

dumps(x) ==
  IF x.t = "str" THEN <<"\"">> \o x.v \o <<"\"">>
  ELSE IF x.t = "int" THEN x.v
  ELSE IF x.t = "list" THEN <<"[">> \o DumpItems(x.v, 1) \o <<"]">>
  ELSE <<"{">> \o DumpPairs(x.v, 1) \o <<"}">>

\* json.loads / langchain.load.loads: a recursive descent parser of the same text;
\* ok = FALSE is JSONDecodeError, next the position after the parsed value
ParseFail == [ok |-> FALSE, val |-> Str(<<>>), next |-> 0]

Tok(text, i) == IF i >= 1 /\ i <= Len(text) THEN text[i] ELSE "EOF"

\* position of the first " at or after j, Len(text) + 1 if there is none
RECURSIVE ScanQuote(_, _)
ScanQuote(text, j) ==
  IF j > Len(text) \/ text[j] = "\"" THEN j ELSE ScanQuote(text, j + 1)

ParseString(text, i) ==
  LET j == ScanQuote(text, i + 1)
  IN IF j > Len(text) THEN ParseFail
     ELSE [ok |-> TRUE, val |-> Str(SubSeq(text, i + 1, j - 1)), next |-> j + 1]

\* position of the first character at or after j that is no digit
RECURSIVE SkipDigits(_, _)
SkipDigits(text, j) ==
  IF j > Len(text) \/ text[j] \notin Digits THEN j ELSE SkipDigits(text, j + 1)

ParseInt(text, i) ==
  LET j == SkipDigits(text, i + 1)
  IN IF text[i] = "0" /\ j > i + 1 THEN ParseFail
     ELSE [ok |-> TRUE, val |-> Num(SubSeq(text, i, j - 1)), next |-> j]

RECURSIVE ParseValue(_, _)
RECURSIVE ParseItems(_, _, _)
RECURSIVE ParsePairs(_, _, _)
ParseItems(text, i, acc) ==
  LET r == ParseValue(text, i)
  IN IF ~r.ok THEN ParseFail
     ELSE IF Tok(text, r.next) = "," THEN ParseItems(text, r.next + 1, Append(acc, r.val))
     ELSE IF Tok(text, r.next) = "]"
       THEN [ok |-> TRUE, val |-> List(Append(acc, r.val)), next |-> r.next + 1]
     ELSE ParseFail

ParsePairs(text, i, acc) ==
  LET key == IF Tok(text, i) = "\"" THEN ParseString(text, i) ELSE ParseFail
      r == IF key.ok /\ Tok(text, key.next) = ":" THEN ParseValue(text, key.next + 1)
           ELSE ParseFail
  IN IF ~r.ok THEN ParseFail
     ELSE IF Tok(text, r.next) = ","
       THEN ParsePairs(text, r.next + 1, Append(acc, <<key.val.v, r.val>>))
     ELSE IF Tok(text, r.next) = "}"
       THEN [ok |-> TRUE, val |-> Dict(Append(acc, <<key.val.v, r.val>>)), next |-> r.next + 1]
     ELSE ParseFail

ParseValue(text, i) ==
  LET c == Tok(text, i)
  IN IF c = "\"" THEN ParseString(text, i)
     ELSE IF c \in Digits THEN ParseInt(text, i)
     ELSE IF c = "[" THEN
       IF Tok(text, i + 1) = "]" THEN [ok |-> TRUE, val |-> List(<<>>), next |-> i + 2]
       ELSE ParseItems(text, i + 1, <<>>)
     ELSE IF c = "{" THEN
       IF Tok(text, i + 1) = "}" THEN [ok |-> TRUE, val |-> Dict(<<>>), next |-> i + 2]
       ELSE ParsePairs(text, i + 1, <<>>)
     ELSE ParseFail

\* the whole text must be one value
JsonLoads(text) ==
  LET r == ParseValue(text, 1)
  IN IF r.ok /\ r.next = Len(text) + 1 THEN r ELSE ParseFail

\* langchain's loads revives only dicts carrying an "lc" marker; every other
\* value comes back as json.loads decodes it
loads(text) == JsonLoads(text).val

(***************************************************************************)
(* The fused_scores dict: Python dicts keep insertion order, so it is the  *)
(* sequence of its items [doc |-> key, score |-> float] in insertion order.*)
(***************************************************************************)
HasKey(fs, key) == \E i \in 1..Len(fs) : fs[i].doc = key

ScoreOf(fs, key) == fs[CHOOSE i \in 1..Len(fs) : fs[i].doc = key].score

\* (variant: the membership test is dropped)
SetDefaultAlways(fs, key) == Append(fs, [doc |-> key, score |-> FZero])

\* if doc_str not in fused_scores: fused_scores[doc_str] = 0
SetDefault(fs, key) ==
  IF HasKey(fs, key) THEN fs ELSE Append(fs, [doc |-> key, score |-> FZero])

\* (variant: ranks counted from 1)
AddScoreOneBased(fs, key, rank, kk) ==
  [i \in 1..Len(fs) |->
     IF fs[i].doc = key THEN [fs[i] EXCEPT !.score = FAdd(@, FRecip(rank + 1 + kk))]
     ELSE fs[i]]

\* (variant: = in place of +=)
AddScoreAssign(fs, key, rank, kk) ==
  [i \in 1..Len(fs) |->
     IF fs[i].doc = key THEN [fs[i] EXCEPT !.score = FRecip(rank + kk)]
     ELSE fs[i]]

\* fused_scores[doc_str] += 1 / (rank + k)
AddScore(fs, key, rank, kk) ==
  [i \in 1..Len(fs) |->
     IF fs[i].doc = key THEN [fs[i] EXCEPT !.score = FAdd(@, FRecip(rank + kk))]
     ELSE fs[i]]

\* sorted(items, key=score, reverse=True): stable, so items of equal score keep
\* their dict order; insertion of the items from left to right
\* (variant: reverse=True forgotten)
RECURSIVE InsertAsc(_, _)
InsertAsc(sorted, item) ==
  IF sorted = <<>> THEN <<item>>
  ELSE IF FLess(item.score, sorted[1].score) THEN <<item>> \o sorted
  ELSE <<sorted[1]>> \o InsertAsc(Tail(sorted), item)

\* (variant: an unstable sort, equal scores come out in reverse dict order)
RECURSIVE InsertUnstable(_, _)
InsertUnstable(sorted, item) ==
  IF sorted = <<>> THEN <<item>>
  ELSE IF ~FLess(item.score, sorted[1].score) THEN <<item>> \o sorted
  ELSE <<sorted[1]>> \o InsertUnstable(Tail(sorted), item)

RECURSIVE InsertDesc(_, _)
InsertDesc(sorted, item) ==
  IF sorted = <<>> THEN <<item>>
  ELSE IF FLess(sorted[1].score, item.score) THEN <<item>> \o sorted
  ELSE <<sorted[1]>> \o InsertDesc(Tail(sorted), item)

RECURSIVE SortedDesc(_, _)
SortedDesc(fs, n) ==
  IF n = 0 THEN <<>> ELSE InsertDesc(SortedDesc(fs, n - 1), fs[n])

\* (variant: the dict is projected without sorting)
DocsOnlyUnsorted(fs) == [i \in 1..Len(fs) |-> loads(fs[i].doc)]

\* [loads(doc) for doc, score in sorted(...)]
DocsOnly(fs) ==
  LET srt == SortedDesc(fs, Len(fs)) IN [i \in 1..Len(srt) |-> loads(srt[i].doc)]

\* [(loads(doc), score) for doc, score in sorted(...)]
DocsWithScores(fs) ==
  LET srt == SortedDesc(fs, Len(fs))
  IN [i \in 1..Len(srt) |-> [doc |-> loads(srt[i].doc), score |-> srt[i].score]]

(***************************************************************************)
(* Inputs.                                                                 *)
(***************************************************************************)
Doc(c) == Dict(<< << <<"i", "d">>, Str(<<c>>) >> >>)

\* the enumerated lists rank plain string documents; the scenario and the
\* ill-shaped inputs hold dict documents
DocNames == {"A", "B"}
Docs == {Str(<<c>>) : c \in DocNames}

RankedLists == {List(l) : l \in UNION {[1..n -> Docs] : n \in 0..MaxLen}}
ListsOfLists == {List(r) : r \in UNION {[1..m -> RankedLists] : m \in 0..MaxLists}}

\* the worked scenario: [A, B, C] and [B, A, D]
Scenario ==
  List(<< List(<<Doc("A"), Doc("B"), Doc("C")>>), List(<<Doc("B"), Doc("A"), Doc("D")>>) >>)

\* values that are not a list of ranked lists
IllShaped ==
  { List(<<Doc("A"), Doc("B")>>),
    List(<<Str(<<"A", "B">>)>>),
    List(<<Num(<<"7">>)>>),
    List(<<List(<<Doc("A")>>), Num(<<"7">>)>>),
    Doc("A"),
    Str(<<"A">>),
    Num(<<"7">>) }

Inputs == ListsOfLists \cup {Scenario} \cup IllShaped

\* text on stdin that is not JSON
Malformed == { <<>>, <<"[", "[">> }

Ks == {3, DefaultK}

None == [t |-> "none", v |-> <<>>]

VARIABLES
  stdin,            \* the text not yet read from standard input
  pc,               \* main: the statement about to run
  input_data, fused_scores, li, rank, doc_str, previous_score, fused_results,
  exc,              \* the exception main's handler caught
  stdout, exit_status,
  results, k,       \* arguments of rag_fusion.reciprocal_rank_fusion (k is 0 until the call)
  rag_pc, rag_fused_scores, rag_li, rag_rank, rag_doc_str, rag_previous_score,
  reranked_results

mainVars == <<stdin, pc, input_data, fused_scores, li, rank, doc_str, previous_score,
              fused_results, exc, stdout, exit_status>>
ragVars == <<results, k, rag_pc, rag_fused_scores, rag_li, rag_rank, rag_doc_str,
             rag_previous_score, reranked_results>>
vars == <<mainVars, ragVars>>

Init ==
  /\ \/ \E x \in Inputs : results = x /\ stdin = dumps(x)
     \/ \E text \in Malformed : results = List(<<>>) /\ stdin = text
  /\ k = 0
  /\ pc = "read"
  /\ input_data = None
  /\ fused_scores = <<>>
  /\ li = 0
  /\ rank = 0
  /\ doc_str = <<>>
  /\ previous_score = FZero
  /\ fused_results = <<>>
  /\ exc = ""
  /\ stdout = <<>>
  /\ exit_status = -1
  /\ rag_pc = "call"
  /\ rag_fused_scores = <<>>
  /\ rag_li = 0
  /\ rag_rank = 0
  /\ rag_doc_str = <<>>
  /\ rag_previous_score = FZero
  /\ reranked_results = <<>>

(***************************************************************************)
(* reciprocal_rank_fusion.py                                               *)
(***************************************************************************)
\* input_data = json.loads(sys.stdin.read()); read() leaves the stream at its end
MainRead ==
  /\ pc = "read"
  /\ stdin' = <<>>
  /\ LET r == JsonLoads(stdin)
     IN IF r.ok THEN /\ input_data' = r.val
                     /\ pc' = "check"
                     /\ exc' = exc
        ELSE /\ exc' = "JSONDecodeError"
             /\ pc' = "except"
             /\ input_data' = input_data
  /\ UNCHANGED <<fused_scores, li, rank, doc_str, previous_score, fused_results,
                 stdout, exit_status, ragVars>>

\* if not isinstance(input_data, list): raise ValueError(...); else call the fuser,
\* whose first statement is fused_scores = {}
MainCheck ==
  /\ pc = "check"
  /\ IF input_data.t # "list"
       THEN /\ exc' = "Input must be a list of result lists"
            /\ pc' = "except"
            /\ UNCHANGED <<fused_scores, li>>
       ELSE /\ fused_scores' = <<>>
            /\ li' = 1
            /\ pc' = "for_docs"
            /\ exc' = exc
  /\ UNCHANGED <<stdin, input_data, rank, doc_str, previous_score, fused_results,
                 stdout, exit_status, ragVars>>

\* for docs in results: ... enumerate(docs)
ForDocs ==
  /\ pc = "for_docs"
  /\ IF li > Len(input_data.v)
       THEN pc' = "sort" /\ UNCHANGED <<rank, exc>>
       ELSE IF Iterable(input_data.v[li])
         THEN pc' = "for_rank" /\ rank' = 0 /\ exc' = exc
         ELSE pc' = "except" /\ exc' = "object is not iterable" /\ rank' = rank
  /\ UNCHANGED <<stdin, input_data, fused_scores, li, doc_str, previous_score,
                 fused_results, stdout, exit_status, ragVars>>

\* for rank, doc in enumerate(docs): doc_str = dumps(doc);
\* if doc_str not in fused_scores: fused_scores[doc_str] = 0
ForRank ==
  /\ pc = "for_rank"
  /\ LET docs == Iter(input_data.v[li])
     IN IF rank >= Len(docs)
          THEN pc' = "for_docs" /\ li' = li + 1 /\ UNCHANGED <<doc_str, fused_scores>>
          ELSE /\ doc_str' = dumps(docs[rank + 1])
               /\ fused_scores' = SetDefault(fused_scores, doc_str')
               /\ pc' = "add"
               /\ li' = li
  /\ UNCHANGED <<stdin, input_data, rank, previous_score, fused_results, exc, stdout,
                 exit_status, ragVars>>

\* previous_score = fused_scores[doc_str]; fused_scores[doc_str] += 1 / (rank + k)
\* (main calls the fuser with the default k)
Accumulate ==
  /\ pc = "add"
  /\ previous_score' = ScoreOf(fused_scores, doc_str)
  /\ fused_scores' = AddScore(fused_scores, doc_str, rank, DefaultK)
  /\ rank' = rank + 1
  /\ pc' = "for_rank"
  /\ UNCHANGED <<stdin, input_data, li, doc_str, fused_results, exc, stdout, exit_status,
                 ragVars>>

\* reranked_results = [loads(doc) for ...]; return; fused_results = ...
Rerank ==
  /\ pc = "sort"
  /\ fused_results' = DocsOnly(fused_scores)
  /\ pc' = "print"
  /\ UNCHANGED <<stdin, input_data, fused_scores, li, rank, doc_str, previous_score, exc,
                 stdout, exit_status, ragVars>>

\* print(json.dumps({'success': True, 'results': fused_results})); return 0
MainPrint ==
  /\ pc = "print"
  /\ stdout' = Append(stdout, [success |-> TRUE, results |-> fused_results])
  /\ exit_status' = 0
  /\ pc' = "exit"
  /\ UNCHANGED <<stdin, input_data, fused_scores, li, rank, doc_str, previous_score,
                 fused_results, exc, ragVars>>

\* (variant: the handler returns 0)
MainExceptReturnsZero ==
  /\ pc = "except"
  /\ stdout' = Append(stdout, [error |-> exc])
  /\ exit_status' = 0
  /\ pc' = "exit"
  /\ UNCHANGED <<stdin, input_data, fused_scores, li, rank, doc_str, previous_score,
                 fused_results, exc, ragVars>>

\* except Exception as e: print(json.dumps({'error': str(e)})); return 1
MainExcept ==
  /\ pc = "except"
  /\ stdout' = Append(stdout, [error |-> exc])
  /\ exit_status' = 1
  /\ pc' = "exit"
  /\ UNCHANGED <<stdin, input_data, fused_scores, li, rank, doc_str, previous_score,
                 fused_results, exc, ragVars>>

(***************************************************************************)
(* rag_fusion.py: reciprocal_rank_fusion(results, k)                       *)
(***************************************************************************)
\* the call binds k; fused_scores = {}; for docs in results (a results that
\* cannot be iterated raises TypeError out of the function)
RagCall ==
  /\ rag_pc = "call"
  /\ k' \in Ks
  /\ rag_fused_scores' = <<>>
  /\ IF Iterable(results) THEN rag_li' = 1 /\ rag_pc' = "for_docs"
     ELSE rag_li' = rag_li /\ rag_pc' = "raised"
  /\ UNCHANGED <<results, rag_rank, rag_doc_str, rag_previous_score, reranked_results,
                 mainVars>>

RagForDocs ==
  /\ rag_pc = "for_docs"
  /\ IF rag_li > Len(Iter(results))
       THEN rag_pc' = "sort" /\ rag_rank' = rag_rank
       ELSE IF Iterable(Iter(results)[rag_li])
         THEN rag_pc' = "for_rank" /\ rag_rank' = 0
         ELSE rag_pc' = "raised" /\ rag_rank' = rag_rank
  /\ UNCHANGED <<results, k, rag_fused_scores, rag_li, rag_doc_str, rag_previous_score,
                 reranked_results, mainVars>>

RagForRank ==
  /\ rag_pc = "for_rank"
  /\ LET docs == Iter(Iter(results)[rag_li])
     IN IF rag_rank >= Len(docs)
          THEN /\ rag_pc' = "for_docs"
               /\ rag_li' = rag_li + 1
               /\ UNCHANGED <<rag_doc_str, rag_fused_scores>>
          ELSE /\ rag_doc_str' = dumps(docs[rag_rank + 1])
               /\ rag_fused_scores' = SetDefault(rag_fused_scores, rag_doc_str')
               /\ rag_pc' = "add"
               /\ rag_li' = rag_li
  /\ UNCHANGED <<results, k, rag_rank, rag_previous_score, reranked_results, mainVars>>

RagAccumulate ==
  /\ rag_pc = "add"
  /\ rag_previous_score' = ScoreOf(rag_fused_scores, rag_doc_str)
  /\ rag_fused_scores' = AddScore(rag_fused_scores, rag_doc_str, rag_rank, k)
  /\ rag_rank' = rag_rank + 1
  /\ rag_pc' = "for_rank"
  /\ UNCHANGED <<results, k, rag_li, rag_doc_str, reranked_results, mainVars>>

\* reranked_results = [(loads(doc), score) for ...]; return reranked_results
RagRerank ==
  /\ rag_pc = "sort"
  /\ reranked_results' = DocsWithScores(rag_fused_scores)
  /\ rag_pc' = "returned"
  /\ UNCHANGED <<results, k, rag_fused_scores, rag_li, rag_rank, rag_doc_str,
                 rag_previous_score, mainVars>>

NextMain ==
  \/ MainRead
  \/ MainCheck
  \/ ForDocs
  \/ ForRank
  \/ Accumulate
  \/ Rerank
  \/ MainPrint
  \/ MainExcept

NextRag ==
  \/ RagCall
  \/ RagForDocs
  \/ RagForRank
  \/ RagAccumulate
  \/ RagRerank

Next == NextMain \/ NextRag

Spec == Init /\ [][Next]_vars

\* main alone
SpecMain == Init /\ [][NextMain]_vars

\* the scored fuser alone
SpecRag == Init /\ [][NextRag]_vars

\* both programs on the same input, one run after the other: they share no
\* variable, so each reaches under any interleaving exactly the states it
\* reaches here
NextBoth ==
  \/ NextMain
  \/ pc = "exit" /\ RagCall
  \/ pc = "exit" /\ RagForDocs
  \/ pc = "exit" /\ RagForRank
  \/ pc = "exit" /\ RagAccumulate
  \/ pc = "exit" /\ RagRerank

SpecBoth == Init /\ [][NextBoth]_vars

(***************************************************************************)
(* Vocabulary of the properties.                                           *)
(***************************************************************************)
\* a list of ranked lists
ListOfLists(x) == x.t = "list" /\ \A i \in 1..Len(x.v) : x.v[i].t = "list"

\* every item of x can be enumerated
Enumerable(x) == Iterable(x) /\ \A i \in 1..Len(Iter(x)) : Iterable(Iter(x)[i])

\* the occurrences of the flattened input, lists in input order and ranks in
\* order within each list
RECURSIVE OccFrom(_, _)
OccFrom(lists, i) ==
  IF i > Len(lists) THEN <<>>
  ELSE LET docs == Iter(lists[i])
       IN [r \in 1..Len(docs) |-> [key |-> dumps(docs[r]), rank |-> r - 1]]
          \o OccFrom(lists, i + 1)

Occ(x) == OccFrom(Iter(x), 1)

KeysOf(x) == LET occ == Occ(x) IN {occ[n].key : n \in 1..Len(occ)}

\* the positions of key in the flattened input
RanksOf(x, key) == LET occ == Occ(x) IN {n \in 1..Len(occ) : occ[n].key = key}

FirstSeen(x, key) ==
  LET at == RanksOf(x, key) IN CHOOSE n \in at : \A m \in at : n <= m

\* the contributions of key, added in the order of the flattened input
RECURSIVE SumOver(_, _, _, _)
SumOver(occ, key, kk, n) ==
  IF n = 0 THEN FZero
  ELSE IF occ[n].key = key
    THEN FAdd(SumOver(occ, key, kk, n - 1), FRecip(occ[n].rank + kk))
  ELSE SumOver(occ, key, kk, n - 1)

MainReturned == pc = "exit" /\ exit_status = 0
RagReturned == rag_pc = "returned"

OutKeys(docs) == {dumps(docs[i]) : i \in 1..Len(docs)}
RagDocs == [i \in 1..Len(reranked_results) |-> reranked_results[i].doc]

(***************************************************************************)
(* C1: the output holds each distinct key of the input exactly once and    *)
(* no other key: the set of output keys is the union of the keys of the    *)
(* input lists, and the output is as long as that set is large.            *)
(***************************************************************************)
C1_Completeness ==
  /\ MainReturned =>
       LET keys == KeysOf(input_data)
       IN OutKeys(fused_results) = keys /\ Len(fused_results) = Cardinality(keys)
  /\ RagReturned =>
       LET keys == KeysOf(results)
       IN OutKeys(RagDocs) = keys /\ Len(RagDocs) = Cardinality(keys)

\* both fusers returned on lists repeating a document within and across lists
C1_Witness ==
  /\ MainReturned /\ RagReturned
  /\ ListOfLists(results) /\ input_data = results
  /\ Cardinality(KeysOf(results)) = 2
  /\ \E i \in 1..Len(results.v) :
       \E a, b \in 1..Len(results.v[i].v) : a # b /\ results.v[i].v[a] = results.v[i].v[b]
  /\ \E i, j \in 1..Len(results.v) :
       i # j /\ results.v[i].v # <<>> /\ \E a \in 1..Len(results.v[j].v) :
         results.v[j].v[a] = results.v[i].v[1]

(***************************************************************************)
(* C2: the output is ordered by non-increasing fused score: for output     *)
(* positions i < j the accumulated score at i is not less than that at j.  *)
(***************************************************************************)
C2_SortedByScore ==
  /\ MainReturned =>
       LET score == [i \in 1..Len(fused_results) |->
                      ScoreOf(fused_scores, dumps(fused_results[i]))]
       IN \A i, j \in 1..Len(fused_results) : i < j => ~FLess(score[i], score[j])
  /\ RagReturned =>
       \A i, j \in 1..Len(reranked_results) :
         i < j => ~FLess(reranked_results[i].score, reranked_results[j].score)

\* both returned, and the best document is not the first one seen
C2_Witness ==
  /\ MainReturned /\ RagReturned
  /\ Len(fused_results) >= 2 /\ dumps(fused_results[1]) # fused_scores[1].doc
  /\ Len(reranked_results) >= 2 /\ dumps(reranked_results[1].doc) # rag_fused_scores[1].doc
  /\ FLess(reranked_results[2].score, reranked_results[1].score)

(***************************************************************************)
(* C3: the score reported for a document is the sum of 1/(rank + k) over   *)
(* the occurrences of its key at 0-indexed position rank in any list (the  *)
(* float sum, in input order); a document occurring once, at rank r, gets  *)
(* exactly 1/(r + k).                                                      *)
(***************************************************************************)
C3_ScoreFormula ==
  RagReturned =>
    \A i \in 1..Len(reranked_results) :
      LET key == dumps(reranked_results[i].doc)
          at == RanksOf(results, key)
      IN /\ reranked_results[i].score = SumOver(Occ(results), key, k, Len(Occ(results)))
         /\ \A n \in at : at = {n} =>
              reranked_results[i].score = FRecip(Occ(results)[n].rank + k)

\* one document seen once at a rank above 0, another seen several times
C3_Witness ==
  /\ RagReturned /\ ListOfLists(results)
  /\ \E i, j \in 1..Len(reranked_results) :
       /\ Cardinality(RanksOf(results, dumps(reranked_results[i].doc))) = 1
       /\ \E n \in RanksOf(results, dumps(reranked_results[i].doc)) : Occ(results)[n].rank > 0
       /\ Cardinality(RanksOf(results, dumps(reranked_results[j].doc))) >= 3

(***************************************************************************)
(* C4: whenever the input is not a sequence of sequences of documents (for *)
(* one, a flat list of documents) the run fails with an error and returns  *)
(* no fused result.                                                        *)
(***************************************************************************)
C4_InvalidInputRejected ==
  (pc = "exit" /\ input_data # None /\ ~ListOfLists(input_data)) =>
    /\ Len(stdout) = 1
    /\ DOMAIN stdout[1] = {"error"}
    /\ exit_status # 0

(***************************************************************************)
(* C5 as stated: fusing [L], L any ranked list (documents possibly         *)
(* repeated), puts the distinct documents in the order of their first      *)
(* occurrences in L.                                                       *)
(***************************************************************************)
SingleList(x) == ListOfLists(x) /\ Len(x.v) = 1

InFirstSeenOrder(x, docs) ==
  \A i, j \in 1..Len(docs) :
    i < j => FirstSeen(x, dumps(docs[i])) < FirstSeen(x, dumps(docs[j]))

C5_SingleListOrder ==
  /\ (MainReturned /\ SingleList(input_data)) => InFirstSeenOrder(input_data, fused_results)
  /\ (RagReturned /\ SingleList(results)) => InFirstSeenOrder(results, RagDocs)

(***************************************************************************)
(* C5 amended: for every k > 0, fusing [L], L a ranked list in which no    *)
(* document is repeated, returns the documents of L in the order of L.     *)
(***************************************************************************)
NoRepeats(l) == \A a, b \in 1..Len(l) : a # b => l[a] # l[b]

C5_SingleListOrderNoRepeats ==
  /\ (MainReturned /\ SingleList(input_data) /\ NoRepeats(input_data.v[1].v)) =>
       fused_results = input_data.v[1].v
  /\ (RagReturned /\ SingleList(results) /\ NoRepeats(results.v[1].v)) =>
       RagDocs = results.v[1].v

\* both fusers returned on one list of two different documents, k not the default
C5_Witness ==
  /\ MainReturned /\ RagReturned /\ SingleList(results) /\ k # DefaultK
  /\ NoRepeats(results.v[1].v) /\ Len(results.v[1].v) >= 2

(***************************************************************************)
(* C6: monotonicity.  If the occurrences of Y can be matched one-to-one to *)
(* distinct occurrences of X at ranks less than or equal to theirs, the    *)
(* fused score of X is not strictly lower than that of Y, and X is not     *)
(* placed after Y unless their scores are equal.                           *)
(***************************************************************************)
CountUpTo(x, key, r) ==
  LET occ == Occ(x) IN Cardinality({n \in 1..Len(occ) : occ[n].key = key /\ occ[n].rank <= r})

\* such a matching exists iff X has, up to every rank, at least as many occurrences as Y
Dominates(x, keyX, keyY) ==
  \A r \in 0..Len(Occ(x)) : CountUpTo(x, keyX, r) >= CountUpTo(x, keyY, r)

C6_Monotonicity ==
  (RagReturned /\ ListOfLists(results)) =>
    \A i, j \in 1..Len(reranked_results) :
      (i # j /\ Dominates(results, dumps(reranked_results[i].doc),
                          dumps(reranked_results[j].doc))) =>
        /\ ~FLess(reranked_results[i].score, reranked_results[j].score)
        /\ i > j => reranked_results[i].score = reranked_results[j].score

(***************************************************************************)
(* C7: every run of main is all-or-nothing: it writes exactly one payload, *)
(* a success payload (success flag true and the complete fused result)     *)
(* with exit status 0, or an error payload (an error description and no    *)
(* results, complete or partial) with a non-zero exit status.              *)
(***************************************************************************)
C7_AllOrNothing ==
  /\ Len(stdout) <= 1
  /\ pc # "exit" => stdout = <<>> /\ exit_status = -1
  /\ pc = "exit" =>
       /\ Len(stdout) = 1
       /\ \/ /\ DOMAIN stdout[1] = {"success", "results"}
             /\ stdout[1].success = TRUE
             /\ exit_status = 0
             /\ OutKeys(stdout[1].results) = KeysOf(input_data)
             /\ Len(stdout[1].results) = Cardinality(KeysOf(input_data))
          \/ /\ DOMAIN stdout[1] = {"error"}
             /\ exit_status # 0 /\ exit_status # -1

\* a run that failed after scoring some documents
C7_Witness ==
  /\ pc = "exit" /\ exit_status = 1
  /\ fused_scores # <<>>
  /\ DOMAIN stdout[1] = {"error"}

(***************************************************************************)
(* C8: for the same input and the same k, the documents returned by        *)
(* reciprocal_rank_fusion.py equal, element by element and in the same     *)
(* order (ties included), the documents of the (document, score) pairs     *)
(* returned by rag_fusion.py.                                              *)
(***************************************************************************)
C8_SameRanking ==
  (MainReturned /\ RagReturned /\ k = DefaultK /\ input_data = results) =>
    fused_results = RagDocs

\* both returned on an input with tied documents, and on one whose best
\* document is not the first seen
C8_Witness ==
  /\ MainReturned /\ RagReturned /\ k = DefaultK /\ input_data = results
  /\ Len(reranked_results) >= 2
  /\ \/ reranked_results[1].score = reranked_results[2].score
     \/ dumps(reranked_results[1].doc) # rag_fused_scores[1].doc
  /\ ListOfLists(results) /\ Len(results.v) = 2

(***************************************************************************)
(* C9 as stated: ties are broken by first-seen order: of two documents     *)
(* with equal fused scores, the one whose first occurrence comes earlier   *)
(* in the flattened input is placed earlier; for [A, B, C] and [B, A, D]   *)
(* with k = 60 the output order is A, B, D, C.                             *)
(***************************************************************************)
TiesInFirstSeenOrder ==
  MainReturned =>
    LET score == [i \in 1..Len(fused_results) |->
                   ScoreOf(fused_scores, dumps(fused_results[i]))]
    IN \A i, j \in 1..Len(fused_results) :
         (i < j /\ score[i] = score[j]) =>
           FirstSeen(input_data, dumps(fused_results[i]))
             < FirstSeen(input_data, dumps(fused_results[j]))

ScenarioOrderIs(order) == (MainReturned /\ input_data = Scenario) => fused_results = order

C9_TiesFirstSeenADC ==
  /\ TiesInFirstSeenOrder
  /\ ScenarioOrderIs(<<Doc("A"), Doc("B"), Doc("D"), Doc("C")>>)

(***************************************************************************)
(* C9 amended: ties are broken by first-seen order, as above; for          *)
(* [A, B, C] and [B, A, D] with k = 60 the output order is A, B, C, D      *)
(* (C and D are both at rank 2 and tie at 1/62; C is seen first).          *)
(***************************************************************************)
C9_TiesFirstSeen ==
  /\ TiesInFirstSeenOrder
  /\ ScenarioOrderIs(<<Doc("A"), Doc("B"), Doc("C"), Doc("D")>>)

\* the scenario has been fused: A and B tie, C and D tie below them
C9_Witness ==
  /\ MainReturned /\ input_data = Scenario
  /\ fused_scores[1].score = fused_scores[2].score
  /\ fused_scores[3].score = fused_scores[4].score
  /\ FLess(fused_scores[3].score, fused_scores[2].score)
  /\ Len(fused_results) = 4

(***************************************************************************)
(* C10: during accumulation the per-key scores only grow: an entry is      *)
(* created at 0 only when its key is first observed, every observation of  *)
(* a key strictly increases its score, no step decreases or removes a      *)
(* score, and a step that observes one key leaves the other scores         *)
(* unchanged.                                                              *)
(***************************************************************************)
Grows(fs, fs2, at, at2, observed, observed2) ==
  /\ \A i \in 1..Len(fs) :
       /\ HasKey(fs2, fs[i].doc)
       /\ ~FLess(ScoreOf(fs2, fs[i].doc), fs[i].score)
       /\ fs[i].doc # observed => ScoreOf(fs2, fs[i].doc) = fs[i].score
  /\ \A j \in 1..Len(fs2) :
       ~HasKey(fs, fs2[j].doc) =>
         fs2[j].score = FZero /\ fs2[j].doc = observed2 /\ at = "for_rank" /\ at2 = "add"
  /\ (at = "add" /\ at2 # "add") =>
       /\ HasKey(fs, observed)
       /\ FLess(ScoreOf(fs, observed), ScoreOf(fs2, observed))

C10_AccumulatorGrows ==
  [][/\ Grows(fused_scores, fused_scores', pc, pc', doc_str, doc_str')
     /\ Grows(rag_fused_scores, rag_fused_scores', rag_pc, rag_pc', rag_doc_str, rag_doc_str')
    ]_vars

\* both accumulators hold two keys, one of them observed more than once
C10_Witness ==
  /\ Len(fused_scores) = 2 /\ Len(rag_fused_scores) = 2
  /\ \E i \in 1..2 : FLess(FRecip(DefaultK), fused_scores[i].score)
  /\ \E i \in 1..2 : FLess(FRecip(k), rag_fused_scores[i].score)

====
